---- MODULE Spec2Model ----
(***************************************************************************)
(* Model of scripts/fetch_metrics.py: one invocation of main() after       *)
(* another against the same SQLite file.  `db' is what is committed in the *)
(* file, `conn' is what the open connection sees (the committed rows plus  *)
(* the statements of the transaction sqlite3 opened implicitly before the  *)
(* first UPDATE and that conn.commit() closes).                            *)
(***************************************************************************)
EXTENDS Integers, Sequences, FiniteSets, TLC

VARIABLES
    db,          \* committed content of the database file: [tweets, snapshots]
    conn,        \* content seen through the open connection (uncommitted included)
    pc,          \* position of the process in main()
    run,         \* number of the current invocation
    limit,       \* args.limit
    env,         \* environment variables and token file read by get_client
    client,      \* the tweepy.Client built by get_client
    targets,     \* targets = fetch_targets(conn, args.limit)
    batches,     \* list(chunked(targets, 50))
    bi,          \* index of the batch the for loop is at
    id_map,      \* id_map of the current batch
    ids,         \* ids of the current batch
    tweets,      \* rest of response.data still to be written
    stmt,        \* parameters of the update_metrics call in progress
    processed,   \* processed
    clock,       \* last reading of datetime.now(timezone.utc)
    pre,         \* history: db when the invocation started
    attempted,   \* history: batch indexes whose get_tweets call was issued
    failedB,     \* history: batch indexes whose get_tweets call raised
    written,     \* history: tweet_id of the update_metrics calls completed in the open transaction
    answers,     \* history: batch index -> ids of response.data, for the calls that returned
    extra,       \* ids the provider may return although they were not asked for
    args,        \* arguments of a function called on its own
    ret          \* what that call returned

vars == <<db, conn, pc, run, limit, env, client, targets, batches, bi, id_map, ids,
          tweets, stmt, processed, clock, pre, attempted, failedB, written, answers,
          extra, args, ret>>

----------------------------------------------------------------------------
(* Bounds of the model *)

MaxRuns == 2           \* invocations of main()
MaxClock == 2          \* largest clock reading, in ticks
MaxLimit == 3          \* largest --limit
TicksPerSecond == 2    \* clock readings per whole second (isoformat has 10^6)
BatchSize == 2         \* stands for the literal 50 of `chunked(targets, 50)'

----------------------------------------------------------------------------
(* Values *)

NULL == "NULL"                      \* SQL NULL / Python None in a text column
Null == <<>>                        \* a NULL lastMetricsUpdate
At(t) == <<t>>                      \* a non-NULL lastMetricsUpdate

Ids == {"t1", "t2", "t3"}           \* tweets.id of the rows of the table
ForeignIds == {"r9"}                \* a tweet id that is no row's publishedTweetId

Min(a, b) == IF a <= b THEN a ELSE b

----------------------------------------------------------------------------
(* get_client: the credentials it reads and the client it builds *)

TokenFiles == {"absent", "empty", "access", "refresh", "pair"}
    \* data/x_tokens.json: missing; {} ; access_token only; refresh_token only; both

Envs == [X_BEARER_TOKEN : BOOLEAN, token_file : TokenFiles,
         X_CLIENT_ID : BOOLEAN, X_CLIENT_SECRET : BOOLEAN,
         X_CONSUMER_KEY : BOOLEAN, X_CONSUMER_SECRET : BOOLEAN,
         X_ACCESS_TOKEN : BOOLEAN, X_ACCESS_SECRET : BOOLEAN]
    \* TRUE: the variable is set to a non-empty string

Getenv(e, name) == IF e[name] THEN name ELSE NULL
    \* the value read is named after the variable it comes from

TokenData(e, field) ==
    IF \/ field = "access_token" /\ e.token_file \in {"access", "pair"}
       \/ field = "refresh_token" /\ e.token_file \in {"refresh", "pair"}
    THEN "file." \o field ELSE NULL

NoClient ==
    [auth |-> "SystemExit", bearer_token |-> NULL, client_id |-> NULL,
     client_secret |-> NULL, consumer_key |-> NULL, consumer_secret |-> NULL,
     access_token |-> NULL, access_token_secret |-> NULL, refresh_token |-> NULL]

Client(auth, kw) == [f \in DOMAIN NoClient |->
    IF f = "auth" THEN auth ELSE IF f \in DOMAIN kw THEN kw[f] ELSE NULL]

\* C10, faulty variant: the four secrets are tried before the bearer token
get_clientSecretsFirst(e) ==
    LET bearer == Getenv(e, "X_BEARER_TOKEN")
        ck == Getenv(e, "X_CONSUMER_KEY")
        cs == Getenv(e, "X_CONSUMER_SECRET")
        at == Getenv(e, "X_ACCESS_TOKEN")
        ats == Getenv(e, "X_ACCESS_SECRET")
    IN  IF ck # NULL /\ cs # NULL /\ at # NULL /\ ats # NULL
        THEN Client("oauth1", [consumer_key |-> ck, consumer_secret |-> cs,
                               access_token |-> at, access_token_secret |-> ats])
        ELSE IF bearer # NULL
        THEN Client("bearer", [bearer_token |-> bearer])
        ELSE IF /\ e.token_file # "absent" /\ TokenData(e, "access_token") # NULL
                /\ e.X_CLIENT_ID
        THEN Client("oauth2", [client_id |-> Getenv(e, "X_CLIENT_ID"),
                               client_secret |-> Getenv(e, "X_CLIENT_SECRET"),
                               access_token |-> TokenData(e, "access_token"),
                               refresh_token |-> TokenData(e, "refresh_token")])
        ELSE NoClient

get_client(e) ==
    LET bearer == Getenv(e, "X_BEARER_TOKEN")
        access_token == TokenData(e, "access_token")
        refresh_token == TokenData(e, "refresh_token")
        client_id == Getenv(e, "X_CLIENT_ID")
        client_secret == Getenv(e, "X_CLIENT_SECRET")
        ck == Getenv(e, "X_CONSUMER_KEY")
        cs == Getenv(e, "X_CONSUMER_SECRET")
        at == Getenv(e, "X_ACCESS_TOKEN")
        ats == Getenv(e, "X_ACCESS_SECRET")
    IN  IF bearer # NULL
        THEN Client("bearer", [bearer_token |-> bearer])
        ELSE IF e.token_file # "absent" /\ access_token # NULL /\ client_id # NULL
        THEN Client("oauth2", [client_id |-> client_id, client_secret |-> client_secret,
                               access_token |-> access_token,
                               refresh_token |-> refresh_token])
        ELSE IF ck # NULL /\ cs # NULL /\ at # NULL /\ ats # NULL
        THEN Client("oauth1", [consumer_key |-> ck, consumer_secret |-> cs,
                               access_token |-> at, access_token_secret |-> ats])
        ELSE NoClient

----------------------------------------------------------------------------
(* The tables *)

ZeroCounts == [likesCount |-> 0, retweetsCount |-> 0, repliesCount |-> 0,
               quotesCount |-> 0, viewsCount |-> 0]

\* t.public_metrics of tweet t as the provider reports it during invocation n:
\* the counts differ from tweet to tweet and grow from one invocation to the next;
\* some tweets come with keys missing, some with no public_metrics at all
PublicMetrics(t, n) ==
    CASE t = "r1" -> [like_count |-> n, retweet_count |-> 1, reply_count |-> 3,
                      quote_count |-> 4, impression_count |-> 5]
      [] t = "r2" -> [like_count |-> n, retweet_count |-> 2, reply_count |-> 3,
                      quote_count |-> 4, impression_count |-> 5]
      [] t = "r3" -> [like_count |-> n, retweet_count |-> 3]
      [] OTHER -> <<>>

Row(pub) == [publishedTweetId |-> pub, lastMetricsUpdate |-> Null, counts |-> ZeroCounts]

\* the publishedTweetId columns the table starts with
InitialPublished ==
    { [t1 |-> "r1", t2 |-> "r2", t3 |-> "r3"],
      [t1 |-> "r1", t2 |-> NULL, t3 |-> "r2"],
      [t1 |-> "r1", t2 |-> "r1", t3 |-> NULL],
      [t1 |-> NULL, t2 |-> NULL, t3 |-> NULL] }

----------------------------------------------------------------------------
(* fetch_targets *)

RECURSIVE Perms(_)
Perms(S) == IF S = {} THEN {<<>>}
            ELSE UNION {{<<x>> \o p : p \in Perms(S \ {x})} : x \in S}

\* SQLite datetime(): the text is converted to whole seconds
datetime(ts) == IF ts = Null THEN Null ELSE At(ts[1] \div TicksPerSecond)

\* C6, faulty variant: the query has no WHERE clause
EligibleAll(tw) == DOMAIN tw

\* WHERE publishedTweetId IS NOT NULL
Eligible(tw) == {i \in DOMAIN tw : tw[i].publishedTweetId # NULL}

\* C8, faulty variant: (lastMetricsUpdate IS NULL) ASC, the NULL rows come last
SortsBeforeNullsLast(tw, a, b) ==
    LET na == tw[a].lastMetricsUpdate = Null
        nb == tw[b].lastMetricsUpdate = Null
    IN  \/ ~na /\ nb
        \/ /\ ~na /\ ~nb
           /\ datetime(tw[a].lastMetricsUpdate)[1] < datetime(tw[b].lastMetricsUpdate)[1]

\* ORDER BY (lastMetricsUpdate IS NULL) DESC, datetime(lastMetricsUpdate) ASC:
\* row a must come before row b
SortsBefore(tw, a, b) ==
    LET na == tw[a].lastMetricsUpdate = Null
        nb == tw[b].lastMetricsUpdate = Null
    IN  \/ na /\ ~nb
        \/ /\ ~na /\ ~nb
           /\ datetime(tw[a].lastMetricsUpdate)[1] < datetime(tw[b].lastMetricsUpdate)[1]

\* the orders the query may produce: rows with equal sort keys come in any order
Sorted(tw) ==
    {s \in Perms(Eligible(tw)) :
        \A a, b \in 1..Len(s) : a < b => ~SortsBefore(tw, s[b], s[a])}

\* the lists fetch_targets may return
fetch_targets(tw, lim) ==
    { [k \in 1..Min(lim, Len(s)) |-> <<s[k], tw[s[k]].publishedTweetId>>] :
        s \in Sorted(tw) }

----------------------------------------------------------------------------
(* chunked *)

\* the for loop of chunked: `out' collects the chunks yielded so far
RECURSIVE ChunkLoop(_, _, _, _)
ChunkLoop(rest, chunk, size, out) ==
    IF rest = <<>>
    THEN IF chunk # <<>> THEN Append(out, chunk) ELSE out
    ELSE LET c == Append(chunk, Head(rest))
         IN  IF Len(c) >= size
             THEN ChunkLoop(Tail(rest), <<>>, size, Append(out, c))
             ELSE ChunkLoop(Tail(rest), c, size, out)

\* C9, faulty variant: the chunk left when the loop ends is not yielded
RECURSIVE ChunkLoopNoRest(_, _, _, _)
ChunkLoopNoRest(rest, chunk, size, out) ==
    IF rest = <<>>
    THEN out
    ELSE LET c == Append(chunk, Head(rest))
         IN  IF Len(c) >= size
             THEN ChunkLoopNoRest(Tail(rest), <<>>, size, Append(out, c))
             ELSE ChunkLoopNoRest(Tail(rest), c, size, out)

chunkedNoRest(iterable, size) == ChunkLoopNoRest(iterable, <<>>, size, <<>>)

chunked(iterable, size) == ChunkLoop(iterable, <<>>, size, <<>>)

----------------------------------------------------------------------------
(* update_metrics *)

Count(metrics, key) == IF key \in DOMAIN metrics THEN metrics[key] ELSE 0
    \* int(metrics.get(key, 0))

Counts(metrics) ==
    [likesCount |-> Count(metrics, "like_count"),
     retweetsCount |-> Count(metrics, "retweet_count"),
     repliesCount |-> Count(metrics, "reply_count"),
     quotesCount |-> Count(metrics, "quote_count"),
     viewsCount |-> Count(metrics, "impression_count")]

\* C2, faulty variant: the UPDATE leaves lastMetricsUpdate as it was
SqlUpdateKeepsTime(tw, tweet_id, counts, now) ==
    [i \in DOMAIN tw |->
        IF i = tweet_id THEN [tw[i] EXCEPT !.counts = counts] ELSE tw[i]]

\* UPDATE tweets SET ... WHERE id = tweet_id
SqlUpdate(tw, tweet_id, counts, now) ==
    [i \in DOMAIN tw |->
        IF i = tweet_id
        THEN [tw[i] EXCEPT !.counts = counts, !.lastMetricsUpdate = At(now)]
        ELSE tw[i]]

\* C15, faulty variant: INSERT OR IGNORE on (tweetId, capturedAt), a second row
\* for the same tweet at the same instant is dropped
SqlInsertOnce(snaps, tweet_id, counts, now) ==
    IF \E k \in 1..Len(snaps) : snaps[k].tweetId = tweet_id /\ snaps[k].capturedAt = now
    THEN snaps
    ELSE Append(snaps, [tweetId |-> tweet_id, capturedAt |-> now, counts |-> counts])

\* INSERT INTO tweet_metrics_snapshots ... : rows are kept in rowid order
SqlInsert(snaps, tweet_id, counts, now) ==
    Append(snaps, [tweetId |-> tweet_id, capturedAt |-> now, counts |-> counts])

\* lines 84-125: update_metrics, both statements, with the reading of the clock
update_metrics(c, tweet_id, counts, now) ==
    [tweets |-> SqlUpdate(c.tweets, tweet_id, counts, now),
     snapshots |-> SqlInsert(c.snapshots, tweet_id, counts, now)]

\* C1, faulty variant: the connection commits every statement on its own
DurableAutocommit(committed, seen) == seen

\* what the file holds once a statement has run on a connection opened by
\* sqlite3.connect(path): the statement stays in the open transaction
Durable(committed, seen) == committed

----------------------------------------------------------------------------
(* main *)

\* id_map = {pub_id: row_id for row_id, pub_id in batch}: a later pair replaces an earlier one
IdMap(batch) ==
    [p \in {batch[k][2] : k \in 1..Len(batch)} |->
        batch[CHOOSE k \in 1..Len(batch) :
                /\ batch[k][2] = p
                /\ \A j \in (k + 1)..Len(batch) : batch[j][2] # p][1]]

\* list(id_map.keys()): the keys in the order they were first inserted
RECURSIVE Keys(_, _)
Keys(batch, seen) ==
    IF batch = <<>> THEN <<>>
    ELSE IF Head(batch)[2] \in seen THEN Keys(Tail(batch), seen)
    ELSE <<Head(batch)[2]>> \o Keys(Tail(batch), seen \cup {Head(batch)[2]})

\* id_map.get(str(t.id), str(t.id))
IdMapGet(m, t) == IF t \in DOMAIN m THEN m[t] ELSE t

RECURSIVE Pick(_, _, _)
Pick(s, keep, k) ==
    IF k > Len(s) THEN <<>>
    ELSE (IF k \in keep THEN <<s[k]>> ELSE <<>>) \o Pick(s, keep, k + 1)

\* the ids of response.data the provider may return for a lookup of `asked':
\* any of the ids asked for, in the order asked, and possibly an id of `more'
Responses(asked, more) ==
    LET all == IF more = {} THEN asked ELSE asked \o <<CHOOSE f \in more : TRUE>>
    IN  {Pick(all, keep, 1) : keep \in SUBSET (1..Len(all))}

NoStmt == [tweet_id |-> NULL, now |-> 0, counts |-> ZeroCounts]

\* the environments an invocation is started in
RunEnvs ==
    {e \in Envs : /\ e.token_file = "absent" /\ ~e.X_CLIENT_ID /\ ~e.X_CLIENT_SECRET
                  /\ ~e.X_CONSUMER_KEY /\ ~e.X_CONSUMER_SECRET
                  /\ ~e.X_ACCESS_TOKEN /\ ~e.X_ACCESS_SECRET}

Running == {"select", "creds", "loop", "fetch", "write", "insert"}
Ended == {"done", "exit", "raised", "killed"}

Start(more) ==
    /\ extra = more
    /\ \E pub \in InitialPublished :
         db = [tweets |-> [i \in Ids |-> Row(pub[i])], snapshots |-> <<>>]
    /\ conn = db
    /\ pre = db
    /\ pc = "select"
    /\ run = 1
    /\ limit \in 1..MaxLimit
    /\ env \in RunEnvs
    /\ client = NoClient
    /\ targets = <<>>
    /\ batches = <<>>
    /\ bi = 1
    /\ id_map = <<>>
    /\ ids = <<>>
    /\ tweets = <<>>
    /\ stmt = NoStmt
    /\ processed = 0
    /\ clock = 0
    /\ attempted = <<>>
    /\ failedB = {}
    /\ written = {}
    /\ answers = <<>>
    /\ args = <<>>
    /\ ret = <<>>

\* the provider returns only ids it was asked for
Init == Start({})

\* the provider may also return an id it was not asked for
InitExtra == Start(ForeignIds)

\* lines 152-158: connect, fetch_targets, return when there is no target
Select ==
    /\ pc = "select"
    /\ \E t \in fetch_targets(conn.tweets, limit) :
         /\ targets' = t
         /\ pc' = IF t = <<>> THEN "done" ELSE "creds"
    /\ UNCHANGED <<db, conn, run, limit, env, client, batches, bi, id_map, ids, tweets,
                   stmt, processed, clock, pre, attempted, failedB, written, answers, extra, args, ret>>

\* lines 160-163: get_client (sys.exit without credentials), processed = 0, chunked
Resolve ==
    /\ pc = "creds"
    /\ client' = get_client(env)
    /\ IF client' = NoClient
       THEN pc' = "exit" /\ UNCHANGED <<batches, bi, processed>>
       ELSE /\ pc' = "loop"
            /\ batches' = chunked(targets, BatchSize)
            /\ bi' = 1
            /\ processed' = 0
    /\ UNCHANGED <<db, conn, run, limit, env, targets, id_map, ids, tweets, stmt, clock,
                   pre, attempted, failedB, written, answers, extra, args, ret>>

\* lines 163-171: the next batch, its id_map and ids, the get_tweets call is issued
Lookup ==
    /\ pc = "loop"
    /\ bi <= Len(batches)
    /\ id_map' = IdMap(batches[bi])
    /\ ids' = Keys(batches[bi], {})
    /\ attempted' = Append(attempted, bi)
    /\ pc' = "fetch"
    /\ UNCHANGED <<db, conn, run, limit, env, client, targets, batches, bi, tweets, stmt,
                   processed, clock, pre, failedB, written, answers, extra, args, ret>>

\* the process is gone: its memory is lost, the open transaction is rolled back
Lost ==
    /\ conn' = db
    /\ client' = NoClient
    /\ targets' = <<>>
    /\ batches' = <<>>
    /\ bi' = 1
    /\ id_map' = <<>>
    /\ ids' = <<>>
    /\ tweets' = <<>>
    /\ stmt' = NoStmt
    /\ processed' = 0

\* the answer of the call for batch b is on record
Answered(log, b, data) ==
    [k \in DOMAIN log \cup {b} |->
        IF k = b THEN {data[j] : j \in 1..Len(data)} ELSE log[k]]

\* C3, faulty variant: the handler reports the error and goes on to write what the call gave
FetchErrorWrites ==
    /\ pc = "fetch"
    /\ failedB' = failedB \cup {bi}
    /\ tweets' \in Responses(ids, extra)
    /\ answers' = Answered(answers, bi, tweets')
    /\ pc' = "write"
    /\ UNCHANGED <<db, conn, run, limit, env, client, targets, batches, bi, id_map, ids,
                   stmt, processed, clock, pre, attempted, written, extra, args, ret>>

\* C4, faulty variant: the exception of get_tweets is not handled and ends the process
FetchErrorAborts ==
    /\ pc = "fetch"
    /\ failedB' = failedB \cup {bi}
    /\ pc' = "raised"
    /\ Lost
    /\ UNCHANGED <<db, run, limit, env, clock, pre, attempted, written, answers, extra, args, ret>>

\* C17, faulty variant: after a call that raised, the loop tries the same batch again
FetchErrorRetries ==
    /\ pc = "fetch"
    /\ failedB' = failedB \cup {bi}
    /\ pc' = "loop"
    /\ UNCHANGED <<db, conn, run, limit, env, client, targets, batches, bi, id_map, ids,
                   tweets, stmt, processed, clock, pre, attempted, written, answers,
                   extra, args, ret>>

\* lines 172-174: get_tweets raised: report, continue with the next batch
FetchError ==
    /\ pc = "fetch"
    /\ failedB' = failedB \cup {bi}
    /\ bi' = bi + 1
    /\ pc' = "loop"
    /\ UNCHANGED <<db, conn, run, limit, env, client, targets, batches, id_map, ids,
                   tweets, stmt, processed, clock, pre, attempted, written, answers, extra, args, ret>>

\* C14, faulty variant: every id asked for is written, whether it was returned or not
FetchOkWritesAsked ==
    /\ pc = "fetch"
    /\ \E data \in Responses(ids, extra) : answers' = Answered(answers, bi, data)
    /\ tweets' = ids
    /\ pc' = "write"
    /\ UNCHANGED <<db, conn, run, limit, env, client, targets, batches, bi, id_map, ids,
                   stmt, processed, clock, pre, attempted, failedB, written, extra, args, ret>>

\* line 176: get_tweets returned; tweets = response.data or []
FetchOk ==
    /\ pc = "fetch"
    /\ tweets' \in Responses(ids, extra)
    /\ answers' = Answered(answers, bi, tweets')
    /\ pc' = "write"
    /\ UNCHANGED <<db, conn, run, limit, env, client, targets, batches, bi, id_map, ids,
                   stmt, processed, clock, pre, attempted, failedB, written, extra, args, ret>>

\* lines 177-192, 93-109: the counts of the next tweet, now, the UPDATE statement.
\* datetime.now() never goes back; two readings in a row may be equal.
Update ==
    /\ pc = "write"
    /\ tweets # <<>>
    /\ \E now \in clock..Min(clock + 1, MaxClock) :
         LET tweet_id == IdMapGet(id_map, Head(tweets))
             metrics == PublicMetrics(Head(tweets), run)
         IN  /\ clock' = now
             /\ stmt' = [tweet_id |-> tweet_id, now |-> now, counts |-> Counts(metrics)]
             /\ conn' = [conn EXCEPT !.tweets =
                            SqlUpdate(conn.tweets, tweet_id, Counts(metrics), now)]
    /\ db' = Durable(db, conn')
    /\ pc' = "insert"
    /\ UNCHANGED <<run, limit, env, client, targets, batches, bi, id_map, ids, tweets,
                   processed, pre, attempted, failedB, written, answers, extra, args, ret>>

\* lines 110-125, 193: the INSERT statement, processed += 1
Insert ==
    /\ pc = "insert"
    /\ conn' = [conn EXCEPT !.snapshots =
                   SqlInsert(conn.snapshots, stmt.tweet_id, stmt.counts, stmt.now)]
    /\ db' = Durable(db, conn')
    /\ written' = written \cup {stmt.tweet_id}
    /\ processed' = processed + 1
    /\ tweets' = Tail(tweets)
    /\ stmt' = NoStmt
    /\ pc' = "write"
    /\ UNCHANGED <<run, limit, env, client, targets, batches, bi, id_map, ids, clock,
                   pre, attempted, failedB, answers, extra, args, ret>>

\* a statement of update_metrics raises sqlite3.Error: nothing in main catches it,
\* the process ends with a traceback
Raise ==
    /\ \/ pc = "write" /\ tweets # <<>>
       \/ pc = "insert"
    /\ pc' = "raised"
    /\ Lost
    /\ UNCHANGED <<db, run, limit, env, clock, pre, attempted, failedB, written, answers, extra, args, ret>>

\* C16, faulty variant: the loop goes on to the next batch with the transaction open
CommitSkipped ==
    /\ pc = "write"
    /\ tweets = <<>>
    /\ bi' = bi + 1
    /\ pc' = "loop"
    /\ UNCHANGED <<db, conn, run, limit, env, client, targets, batches, id_map, ids, tweets,
                   stmt, processed, clock, pre, attempted, failedB, written, answers,
                   extra, args, ret>>

\* line 195: conn.commit()
Commit ==
    /\ pc = "write"
    /\ tweets = <<>>
    /\ db' = conn
    /\ written' = {}
    /\ bi' = bi + 1
    /\ pc' = "loop"
    /\ UNCHANGED <<conn, run, limit, env, client, targets, batches, id_map, ids, tweets,
                   stmt, processed, clock, pre, attempted, failedB, answers, extra, args, ret>>

\* line 197: the loop is over, the count is printed
Finish ==
    /\ pc = "loop"
    /\ bi > Len(batches)
    /\ pc' = "done"
    /\ UNCHANGED <<db, conn, run, limit, env, client, targets, batches, bi, id_map, ids,
                   tweets, stmt, processed, clock, pre, attempted, failedB, written, answers, extra, args, ret>>

\* the process is killed
Kill ==
    /\ pc \in Running
    /\ pc' = "killed"
    /\ Lost
    /\ UNCHANGED <<db, run, limit, env, clock, pre, attempted, failedB, written, answers, extra, args, ret>>

\* the scheduler invokes the script again
Invoke ==
    /\ pc \in Ended
    /\ run < MaxRuns
    /\ run' = run + 1
    /\ limit' \in 1..MaxLimit
    /\ env' \in RunEnvs
    /\ pc' = "select"
    /\ conn' = db
    /\ pre' = db
    /\ client' = NoClient
    /\ targets' = <<>>
    /\ batches' = <<>>
    /\ bi' = 1
    /\ id_map' = <<>>
    /\ ids' = <<>>
    /\ tweets' = <<>>
    /\ stmt' = NoStmt
    /\ processed' = 0
    /\ attempted' = <<>>
    /\ failedB' = {}
    /\ written' = {}
    /\ answers' = <<>>
    /\ UNCHANGED <<db, clock, extra, args, ret>>

Next ==
    \/ Select
    \/ Resolve
    \/ Lookup
    \/ FetchError
    \/ FetchOk
    \/ Update
    \/ Insert
    \/ Raise
    \/ Commit
    \/ Finish
    \/ Kill
    \/ Invoke

Spec == Init /\ [][Next]_vars

SpecExtra == InitExtra /\ [][Next]_vars

\* the steps the process takes by itself
Step ==
    \/ Select
    \/ Resolve
    \/ Lookup
    \/ FetchError
    \/ FetchOk
    \/ Update
    \/ Insert
    \/ Raise
    \/ Commit
    \/ Finish

\* invocations nobody kills
NextLive ==
    \/ Step
    \/ Invoke

\* the interpreter keeps executing the process, and every get_tweets call issued
\* returns or raises: a step that stays possible is eventually taken
SpecLive == Init /\ [][NextLive]_vars /\ WF_vars(Step)

\* the tweets that were deleted at the provider: no answer ever holds them
Deleted == {"r1"}

\* every invocation has credentials and the same --limit
InitRotate ==
    /\ Start({})
    /\ env.X_BEARER_TOKEN

\* line 176 when every call succeeds: the answer holds the ids asked for, in the
\* order asked, but for the deleted ones
FetchPresent ==
    /\ pc = "fetch"
    /\ tweets' = SelectSeq(ids, LAMBDA r : r \notin Deleted)
    /\ answers' = Answered(answers, bi, tweets')
    /\ pc' = "write"
    /\ UNCHANGED <<db, conn, run, limit, env, client, targets, batches, bi, id_map, ids,
                   stmt, processed, clock, pre, attempted, failedB, written, extra, args, ret>>

\* a tweet the provider returns when asked, with no snapshot yet
Waiting(i) ==
    /\ db.tweets[i].publishedTweetId \notin {NULL} \cup Deleted
    /\ \A k \in 1..Len(db.snapshots) : db.snapshots[k].tweetId # i

\* the scheduler invokes the script again and again, with the same arguments and
\* environment, as long as a tweet waits for its first refresh
Reinvoke ==
    /\ pc \in Ended
    /\ \E i \in Ids : Waiting(i)
    /\ run' = Min(run + 1, MaxRuns)
    /\ pc' = "select"
    /\ conn' = db
    /\ pre' = db
    /\ client' = NoClient
    /\ targets' = <<>>
    /\ batches' = <<>>
    /\ bi' = 1
    /\ id_map' = <<>>
    /\ ids' = <<>>
    /\ tweets' = <<>>
    /\ stmt' = NoStmt
    /\ processed' = 0
    /\ attempted' = <<>>
    /\ failedB' = {}
    /\ written' = {}
    /\ answers' = <<>>
    /\ UNCHANGED <<db, limit, env, clock, extra, args, ret>>

NextRotate ==
    \/ Select
    \/ Resolve
    \/ Lookup
    \/ FetchPresent
    \/ Update
    \/ Insert
    \/ Commit
    \/ Finish
    \/ Reinvoke

\* every call succeeds, no statement raises, nobody kills the process, and the
\* scheduler and the interpreter keep going
SpecRotate == InitRotate /\ [][NextRotate]_vars /\ WF_vars(NextRotate)

----------------------------------------------------------------------------
(* chunked, get_client and update_metrics called on their own *)

MaxLen == 5            \* longest list given to chunked
MaxSize == 3           \* largest chunk size given to chunked

Items == {"a", "b"}
Lists == UNION {[1..n -> Items] : n \in 0..MaxLen}

\* no invocation of main is in progress
NoMain ==
    /\ db = [tweets |-> [i \in Ids |-> Row(NULL)], snapshots |-> <<>>]
    /\ conn = db
    /\ pre = db
    /\ run = 1
    /\ limit = 1
    /\ targets = <<>>
    /\ batches = <<>>
    /\ bi = 1
    /\ id_map = <<>>
    /\ ids = <<>>
    /\ tweets = <<>>
    /\ stmt = NoStmt
    /\ processed = 0
    /\ clock = 0
    /\ attempted = <<>>
    /\ failedB = {}
    /\ written = {}
    /\ answers = <<>>
    /\ extra = {}

InitChunk ==
    /\ NoMain
    /\ pc = "call"
    /\ env = CHOOSE e \in RunEnvs : ~e.X_BEARER_TOKEN
    /\ client = NoClient
    /\ args \in [iterable : Lists, size : 1..MaxSize]
    /\ ret = <<>>

CallChunked ==
    /\ pc = "call"
    /\ ret' = chunked(args.iterable, args.size)
    /\ pc' = "returned"
    /\ UNCHANGED <<db, conn, run, limit, env, client, targets, batches, bi, id_map, ids,
                   tweets, stmt, processed, clock, pre, attempted, failedB, written, answers, extra, args>>

SpecChunk == InitChunk /\ [][CallChunked]_vars

InitClient ==
    /\ NoMain
    /\ pc = "call"
    /\ env \in Envs
    /\ client = NoClient
    /\ args = <<>>
    /\ ret = <<>>

CallGetClient ==
    /\ pc = "call"
    /\ client' = get_client(env)
    /\ pc' = "returned"
    /\ UNCHANGED <<db, conn, run, limit, env, targets, batches, bi, id_map, ids,
                   tweets, stmt, processed, clock, pre, attempted, failedB, written,
                   answers, extra, args, ret>>

SpecClient == InitClient /\ [][CallGetClient]_vars

\* the tables update_metrics is called on: never written, or t1 refreshed once
AppliedStores ==
    LET fresh == [tweets |-> [i \in Ids |-> Row(NULL)], snapshots |-> <<>>]
    IN  {fresh, update_metrics(fresh, "t1", Counts(PublicMetrics("r1", 1)), 0)}

\* the five counts main may pass to update_metrics
AppliedCounts ==
    {Counts(PublicMetrics(r, n)) : r \in {"r1", "r2", "r3", "r9"}, n \in 1..MaxRuns}

InitApply ==
    /\ db \in AppliedStores
    /\ conn = db
    /\ pre = db
    /\ run = 1
    /\ limit = 1
    /\ targets = <<>>
    /\ batches = <<>>
    /\ bi = 1
    /\ id_map = <<>>
    /\ ids = <<>>
    /\ tweets = <<>>
    /\ stmt = NoStmt
    /\ processed = 0
    /\ clock = 0
    /\ attempted = <<>>
    /\ failedB = {}
    /\ written = {}
    /\ answers = <<>>
    /\ extra = {}
    /\ pc = "call"
    /\ env = CHOOSE e \in RunEnvs : ~e.X_BEARER_TOKEN
    /\ client = NoClient
    /\ args \in [tweet_id : Ids \cup ForeignIds, counts : AppliedCounts]
    /\ ret = <<>>

\* update_metrics is called with the same arguments a first and a second time;
\* ret keeps what the clock read and what the tables held after each call
CallUpdateMetrics ==
    /\ pc \in {"call", "again"}
    /\ \E now \in clock..Min(clock + 1, MaxClock) :
         /\ clock' = now
         /\ conn' = update_metrics(conn, args.tweet_id, args.counts, now)
         /\ ret' = Append(ret, [now |-> now, tables |-> conn'])
    /\ pc' = IF pc = "call" THEN "again" ELSE "returned"
    /\ UNCHANGED <<db, run, limit, env, client, targets, batches, bi, id_map, ids, tweets,
                   stmt, processed, pre, attempted, failedB, written, answers, extra, args>>

SpecApply == InitApply /\ [][CallUpdateMetrics]_vars

----------------------------------------------------------------------------
(* Properties *)

\* the snapshot rows of tweet i, in rowid order
SnapsOf(store, i) == SelectSeq(store.snapshots, LAMBDA r : r.tweetId = i)

\* the snapshot rows of tweet i inserted since the invocation started
NewSnapsOf(store, i) ==
    SelectSeq(SubSeq(store.snapshots, Len(pre.snapshots) + 1, Len(store.snapshots)),
              LAMBDA r : r.tweetId = i)

Last(s) == s[Len(s)]

\* the most recent snapshot of a non-empty list: the greatest capturedAt, and the
\* greatest rowid among rows captured at the same instant
Latest(s) ==
    s[CHOOSE k \in 1..Len(s) :
        \A j \in 1..Len(s) :
            \/ s[j].capturedAt < s[k].capturedAt
            \/ s[j].capturedAt = s[k].capturedAt /\ j <= k]

\* the row shows the snapshot: same five counts, lastMetricsUpdate = capturedAt
Shows(row, snap) ==
    /\ row.counts = snap.counts
    /\ row.lastMetricsUpdate = At(snap.capturedAt)

\* targets still holds what fetch_targets returned in this invocation
Selected == pc \in {"creds", "loop", "fetch", "write", "insert", "done", "exit"}

TargetIds == {targets[k][1] : k \in 1..Len(targets)}
BatchIds(b) == {batches[b][k][1] : k \in 1..Len(batches[b])}

\* C1: in every committed state of the file, also after a statement of
\* update_metrics raised or the process was killed, each tweet either has no snapshot
\* inserted since the invocation started and its row is as it was then, or has one and
\* its counts and lastMetricsUpdate are those of the last snapshot inserted for it.
C1_PerPostAtomic ==
    \A i \in Ids :
        IF NewSnapsOf(db, i) = <<>>
        THEN db.tweets[i] = pre.tweets[i]
        ELSE /\ Shows(db.tweets[i], Last(NewSnapsOf(db, i)))
             /\ db.tweets[i] # pre.tweets[i]

\* C1 witness: the process died with writes of the open transaction undone, after an
\* earlier batch of the same invocation was committed
C1_Witness ==
    /\ pc \in {"raised", "killed"}
    /\ written \cap Ids # {}
    /\ db # pre

\* C2: in every committed state, a tweet with no snapshot has a NULL
\* lastMetricsUpdate, and a tweet with snapshots has the five counts of its most
\* recent snapshot and that snapshot's capturedAt as lastMetricsUpdate.
C2_CurrentIsLatestSnapshot ==
    \A i \in Ids :
        IF SnapsOf(db, i) = <<>>
        THEN db.tweets[i].lastMetricsUpdate = Null
        ELSE Shows(db.tweets[i], Latest(SnapsOf(db, i)))

\* C2 witness: a tweet refreshed by two invocations, with different counts
C2_Witness ==
    \E i \in Ids :
        /\ Len(SnapsOf(db, i)) = 2
        /\ SnapsOf(db, i)[1].counts # SnapsOf(db, i)[2].counts

\* C3: while the invocation runs and when it is done, every tweet of a batch whose
\* get_tweets call raised has the row it had when the invocation started, in the
\* file and through the connection, and no snapshot was inserted for it.
C3_FailedBatchUntouched ==
    \A b \in failedB : b <= Len(batches) =>
        \A i \in BatchIds(b) :
            /\ db.tweets[i] = pre.tweets[i]
            /\ conn.tweets[i] = pre.tweets[i]
            /\ NewSnapsOf(conn, i) = <<>>
            /\ NewSnapsOf(db, i) = <<>>

\* C3 witness: two batches, the call of the second raised, the first was written
C3_Witness ==
    /\ pc = "done"
    /\ failedB = {2}
    /\ \A i \in BatchIds(1) : NewSnapsOf(db, i) # <<>>

\* C4: whatever get_tweets calls raise, the calls of an invocation are issued for
\* batch 1, 2, ... in this order, once each; after a call raised the loop is at the
\* next batch; the process never ends on sys.exit or a traceback at a batch whose call
\* raised; and when the invocation is done every batch of chunked(targets) was attempted.
C4_FailedBatchNeverAborts ==
    /\ attempted = [k \in 1..Len(attempted) |-> k]
    /\ failedB \subseteq 1..Len(attempted)
    /\ pc = "loop" => Len(attempted) = bi - 1
    /\ pc \in {"fetch", "write", "insert"} => Len(attempted) = bi
    /\ pc \in {"exit", "raised"} => Len(attempted) \notin failedB
    /\ (pc = "done" /\ targets # <<>>) =>
          /\ batches = chunked(targets, BatchSize)
          /\ Len(attempted) = Len(batches)

\* C4 witness: two batches, both calls raised, the invocation is done
C4_Witness ==
    /\ pc = "done"
    /\ Len(batches) = 2
    /\ failedB = {1, 2}

\* C5 (the claim as stated): when a statement of update_metrics raises, every other
\* tweet of the batch already written by update_metrics is durably updated: it has a
\* snapshot inserted since the invocation started.
C5_SiblingsDurable ==
    pc = "raised" => \A i \in written \cap Ids : NewSnapsOf(db, i) # <<>>

\* C6: a tweet whose publishedTweetId is NULL is never in targets, NULL is never
\* among the ids looked up, and the tweet's row is never updated nor snapshotted.
C6_NullNeverTarget ==
    /\ \A k \in 1..Len(targets) : targets[k][2] # NULL
    /\ \A k \in 1..Len(ids) : ids[k] # NULL
    /\ \A i \in Ids : conn.tweets[i].publishedTweetId = NULL =>
          /\ i \notin TargetIds
          /\ conn.tweets[i] = Row(NULL)
          /\ db.tweets[i] = Row(NULL)
          /\ SnapsOf(conn, i) = <<>>
          /\ SnapsOf(db, i) = <<>>
          /\ stmt.tweet_id # i

\* C6 witness: the table holds a tweet without publishedTweetId and an invocation
\* that refreshed other tweets is done
C6_Witness ==
    /\ pc = "done"
    /\ processed > 0
    /\ \E i \in Ids : db.tweets[i].publishedTweetId = NULL

\* the order the claim C7 states: NULL first, then ascending by lastMetricsUpdate itself
StatedBefore(tw, a, b) ==
    LET na == tw[a].lastMetricsUpdate = Null
        nb == tw[b].lastMetricsUpdate = Null
    IN  \/ na /\ ~nb
        \/ ~na /\ ~nb /\ tw[a].lastMetricsUpdate[1] < tw[b].lastMetricsUpdate[1]

StatedSelect(tw, lim) ==
    { [k \in 1..Min(lim, Len(s)) |-> <<s[k], tw[s[k]].publishedTweetId>>] :
        s \in {q \in Perms({i \in DOMAIN tw : tw[i].publishedTweetId # NULL}) :
                 \A a, b \in 1..Len(q) : a < b => ~StatedBefore(tw, q[b], q[a])} }

\* C7 (the claim as stated): targets is the first min(limit, number of eligible tweets)
\* elements of the eligible tweets sorted NULL lastMetricsUpdate first, then ascending
\* by lastMetricsUpdate.
C7_StatedOrder == Selected => targets \in StatedSelect(pre.tweets, limit)

\* C8 (the claim as stated): no tweet has been refreshed twice while an eligible
\* tweet has never been refreshed.
C8_NoSecondRefreshBeforeFirst ==
    \A i, j \in Ids :
        (Len(SnapsOf(db, i)) >= 2 /\ db.tweets[j].publishedTweetId # NULL)
            => SnapsOf(db, j) # <<>>

\* C8 (amended): an invocation selects a tweet that was refreshed before only when
\* every eligible tweet never refreshed is selected too, ahead of it.
C8_NeverRefreshedSelectedFirst ==
    Selected =>
        \A k \in 1..Len(targets) :
            pre.tweets[targets[k][1]].lastMetricsUpdate # Null =>
                \A j \in Ids :
                    (/\ pre.tweets[j].publishedTweetId # NULL
                     /\ pre.tweets[j].lastMetricsUpdate = Null)
                        => \E m \in 1..(k - 1) : targets[m][1] = j

\* C8 witness: an invocation selected a tweet refreshed before after one never refreshed
C8_Witness ==
    /\ Selected
    /\ \E k, m \in 1..Len(targets) :
         /\ m < k
         /\ pre.tweets[targets[k][1]].lastMetricsUpdate # Null
         /\ pre.tweets[targets[m][1]].lastMetricsUpdate = Null

RECURSIVE Concat(_)
Concat(groups) == IF groups = <<>> THEN <<>> ELSE Head(groups) \o Concat(Tail(groups))

Sizes(groups) == [g \in 1..Len(groups) |-> Len(groups[g])]

\* C9: the groups chunked returns, concatenated in order, are the input; every group
\* is non-empty and no longer than the size; every group but the last has exactly the
\* size; an empty input gives no group; 12 items by 5 give groups of 5, 5 and 2 (the
\* 120 by 50 of the example, divided by ten).
C9_Partition ==
    /\ Sizes(chunked([k \in 1..12 |-> k], 5)) = <<5, 5, 2>>
    /\ (pc = "returned" /\ args # <<>>) =>
          /\ Concat(ret) = args.iterable
          /\ \A g \in 1..Len(ret) :
                /\ Len(ret[g]) >= 1
                /\ Len(ret[g]) <= args.size
                /\ g < Len(ret) => Len(ret[g]) = args.size
          /\ args.iterable = <<>> => ret = <<>>

\* C9 witness: five items by two gave groups of 2, 2 and 1
C9_Witness ==
    /\ pc = "returned"
    /\ args # <<>>
    /\ Len(args.iterable) = 5
    /\ args.size = 2
    /\ Sizes(ret) = <<2, 2, 1>>

\* the strategies in the order of their priority, and when each is usable
Strategies == <<"bearer", "oauth2", "oauth1">>

Usable(e, strategy) ==
    CASE strategy = "bearer" -> e.X_BEARER_TOKEN
      [] strategy = "oauth2" -> e.token_file \in {"access", "pair"} /\ e.X_CLIENT_ID
      [] strategy = "oauth1" -> /\ e.X_CONSUMER_KEY /\ e.X_CONSUMER_SECRET
                                /\ e.X_ACCESS_TOKEN /\ e.X_ACCESS_SECRET

\* the values a strategy's client may be built from
OwnValues(strategy) ==
    CASE strategy = "bearer" -> {"X_BEARER_TOKEN"}
      [] strategy = "oauth2" -> {"X_CLIENT_ID", "X_CLIENT_SECRET", "file.access_token",
                                 "file.refresh_token"}
      [] strategy = "oauth1" -> {"X_CONSUMER_KEY", "X_CONSUMER_SECRET", "X_ACCESS_TOKEN",
                                 "X_ACCESS_SECRET"}
      [] OTHER -> {}

NoCredentials == \A k \in 1..Len(Strategies) : ~Usable(env, Strategies[k])

\* C11: an invocation that has no usable credentials ends with the exit of
\* get_client (non-zero status), has asked the provider for no batch and has written
\* no row, whatever the tables hold.
C11_NoCredentialsFails ==
    (NoCredentials /\ pc \in {"done", "exit", "raised"}) =>
        /\ pc = "exit"
        /\ attempted = <<>>
        /\ db = pre
        /\ conn = pre

\* C12: the list of targets is selected only after get_client has returned a
\* client: whenever the invocation holds its selection, it holds a client.
C12_SelectAfterCredentials ==
    Selected => client # NoClient

\* the tweets rows an UPDATE of this invocation durably changed: update_metrics
\* inserts a snapshot under the same tweet_id in the same transaction
UpdatedPosts == {i \in Ids : NewSnapsOf(db, i) # <<>>}

\* C13: when main has printed its count, the count is the number of distinct
\* tweets rows durably updated by the invocation, and it is the number of snapshot
\* rows the invocation added.
C13_CountIsUpdatedPosts ==
    (pc = "done") =>
        /\ processed = Cardinality(UpdatedPosts)
        /\ processed = Len(db.snapshots) - Len(pre.snapshots)

\* the for loop is at or past its first batch: batches, bi and answers are current
InLoop == pc \in {"loop", "fetch", "write", "insert", "done"}

\* tweet i of batch b was selected with a publishedTweetId the answer lacks
AbsentIn(b, k) == batches[b][k][2] \notin answers[b]

\* C14: when the call for a batch returned without the publishedTweetId of a
\* selected tweet, the batch is not a failed one, the tweet's row is as it was when
\* the invocation started and no snapshot is inserted for it, in the connection and
\* in the file; once the batch is committed, every id of the answer that was asked
\* for has the row it stands for updated, with a new snapshot.
C14_AbsentSkipped ==
    InLoop =>
        \A b \in DOMAIN answers :
            /\ b \notin failedB
            /\ \A k \in 1..Len(batches[b]) :
                  AbsentIn(b, k) =>
                      LET i == batches[b][k][1]
                      IN  /\ conn.tweets[i] = pre.tweets[i]
                          /\ db.tweets[i] = pre.tweets[i]
                          /\ NewSnapsOf(conn, i) = <<>>
                          /\ NewSnapsOf(db, i) = <<>>
            /\ b < bi =>
                  \A r \in answers[b] \cap DOMAIN IdMap(batches[b]) :
                      LET i == IdMap(batches[b])[r]
                      IN  /\ Len(NewSnapsOf(db, i)) = 1
                          /\ Shows(db.tweets[i], Last(NewSnapsOf(db, i)))

\* C14 witness: the invocation is done and a batch of two tweets was answered with
\* one of them only: that one is updated, the batch was committed
C14_Witness ==
    /\ pc = "done"
    /\ \E b \in DOMAIN answers :
         /\ Len(batches[b]) = 2
         /\ AbsentIn(b, 1)
         /\ ~AbsentIn(b, 2)
         /\ NewSnapsOf(db, batches[b][2][1]) # <<>>
         /\ processed >= 1

\* C15: when update_metrics is called twice with the same tweet_id and counts
\* and the clock reads the same instant both times, the tweets table after the second
\* call is the one after the first call, and each call adds exactly one snapshot row:
\* two rows with the same tweetId, capturedAt and counts, none dropped.
C15_SameInstantTwice ==
    (pc = "returned" /\ Len(ret) = 2 /\ ret[1].now = ret[2].now) =>
        LET first == ret[1].tables
            second == ret[2].tables
            n == Len(pre.snapshots)
        IN  /\ second.tweets = first.tweets
            /\ args.tweet_id \in Ids =>
                  /\ first.tweets[args.tweet_id].counts = args.counts
                  /\ first.tweets[args.tweet_id].lastMetricsUpdate = At(ret[1].now)
            /\ Len(first.snapshots) = n + 1
            /\ Len(second.snapshots) = n + 2
            /\ SubSeq(second.snapshots, 1, n) = pre.snapshots
            /\ second.snapshots[n + 1] = second.snapshots[n + 2]
            /\ second.snapshots[n + 2] =
                  [tweetId |-> args.tweet_id, capturedAt |-> ret[2].now, counts |-> args.counts]

\* C15 witness: t1, refreshed before, gets other counts twice at one instant: its row
\* changed and two equal snapshot rows follow the old one
C15_Witness ==
    /\ pc = "returned"
    /\ Len(ret) = 2
    /\ ret[1].now = ret[2].now
    /\ args.tweet_id = "t1"
    /\ Len(pre.snapshots) = 1
    /\ ret[2].tables.tweets["t1"] # pre.tweets["t1"]
    /\ Len(conn.snapshots) = 3

\* the calls issued, and among them those that raised or returned
Issued == {attempted[k] : k \in 1..Len(attempted)}
Over == failedB \cup DOMAIN answers

\* every write of the answer of batch b is in the file
CommittedBatch(b) ==
    \A r \in answers[b] :
        \E k \in (Len(pre.snapshots) + 1)..Len(db.snapshots) :
            db.snapshots[k].tweetId = IdMapGet(IdMap(batches[b]), r)

\* C16: get_tweets is called once per batch, for batch 1, 2, ... in turn; the
\* calls issued and not yet over are none, or the one for the current batch while the
\* process waits for it; and while that call is in flight every earlier batch has
\* either raised or has all the writes of its answer committed, with no transaction
\* left open.
C16_Sequential ==
    InLoop =>
        /\ \A k \in 1..Len(attempted) : attempted[k] = k
        /\ Over \subseteq Issued
        /\ failedB \cap DOMAIN answers = {}
        /\ Issued \ Over = IF pc = "fetch" THEN {bi} ELSE {}
        /\ pc = "fetch" =>
              /\ conn = db
              /\ written = {}
              /\ \A b \in 1..(bi - 1) :
                    b \in failedB \/ (b \in DOMAIN answers /\ CommittedBatch(b))

\* C16 witness: the call for the second batch is in flight, the first batch was
\* answered and its writes are committed
C16_Witness ==
    /\ pc = "fetch"
    /\ bi = 2
    /\ 1 \in DOMAIN answers
    /\ answers[1] # {}
    /\ CommittedBatch(1)
    /\ db # pre

CeilDiv(n, d) == (n + d - 1) \div d

\* C17: an invocation that nobody kills ends: from every position of main it
\* reaches the end of main (done), the exit of get_client or an uncaught exception;
\* and it issues at most ceil(n / 50) get_tweets calls for n selected targets.
C17_Terminates ==
    /\ (pc \in Running) ~> (pc \in {"done", "exit", "raised"})
    /\ [](InLoop => Len(attempted) <= CeilDiv(Len(targets), BatchSize))

\* C17 witness: three targets, two batches, both calls issued, the invocation is done
C17_Witness ==
    /\ pc = "done"
    /\ Len(targets) = 3
    /\ Len(attempted) = 2
    /\ CeilDiv(Len(targets), BatchSize) = 2

\* C18: with invocation after invocation at the same limit and every call
\* succeeding, every tweet the provider returns when asked gets a first refresh in
\* the end, however many other tweets the provider never returns.
C18_NoStarvation ==
    \A i \in Ids : Waiting(i) ~> ~Waiting(i)

\* C19: once a batch whose call returned is committed, every tweet of the batch
\* whose publishedTweetId is in the answer has exactly one new snapshot and its row
\* shows it, also when two tweets of the batch have the same publishedTweetId.
C19_CompleteMapping ==
    InLoop =>
        \A b \in DOMAIN answers :
            b < bi =>
                \A k \in 1..Len(batches[b]) :
                    ~AbsentIn(b, k) =>
                        LET i == batches[b][k][1]
                        IN  /\ Len(NewSnapsOf(db, i)) = 1
                            /\ Shows(db.tweets[i], Last(NewSnapsOf(db, i)))

\* C20: whatever ids an answer holds, every snapshot row the invocation inserts
\* is for a tweet it selected, the update_metrics calls made for a batch are for
\* tweets of that batch, and the count is the number of selected tweets that got a
\* snapshot: an id of the answer that is no tweet's of the batch adds no row and
\* does not count.
C20_WritesConfined ==
    InLoop =>
        /\ \A k \in (Len(pre.snapshots) + 1)..Len(conn.snapshots) :
              conn.snapshots[k].tweetId \in TargetIds
        /\ pc \in {"write", "insert"} => written \subseteq BatchIds(bi)
        /\ processed = Cardinality({i \in TargetIds : NewSnapsOf(conn, i) # <<>>})

====
